---- MODULE Spec2Model ----
(***************************************************************************)
(* LawWise backend (backend/server.js, two variants kept in one file):     *)
(*   - the session variant: /api/upload stores the extracted text of a PDF *)
(*     in documentContextStore under a uuid and schedules its deletion,    *)
(*     /api/chat answers follow-up questions from the stored text;         *)
(*   - the translation variant: /api/upload translates, asks Sarvam and    *)
(*     falls back to Groq.                                                 *)
(* LawWise frontend (src/components/ChatArea.tsx, one file per variant):   *)
(*   the ChatArea component sends uploads and follow-up questions and      *)
(*   keeps the current document session id.                                *)
(* Every await of a handler is a step boundary: handlers of different      *)
(* requests and timer callbacks interleave exactly there.                  *)
(***************************************************************************)
EXTENDS Integers, Sequences, FiniteSets, TLC

VARIABLES
    documentContextStore,  \* own properties of the store object: key -> JS value
    timers,                \* session ids whose setTimeout callback is pending
    uuidCount,             \* number of uuidv4() calls made so far
    uploads,               \* /api/upload handlers (session variant), by arrival
    chat,                  \* the /api/chat handler (session variant): its locals, its response
    translationUpload,     \* the /api/upload handler of the translation variant
    client                 \* the ChatArea component of a browser: its state, its sends

sessionVars == <<documentContextStore, timers, uuidCount, uploads, chat>>
translationVars == <<translationUpload>>
clientVars == <<client>>
vars == <<sessionVars, translationVars, clientVars>>

-----------------------------------------------------------------------------
(* Bounds of the model *)

MaxUploads == 2   \* upload requests received in a run (each makes <= 1 session)

-----------------------------------------------------------------------------
(* JavaScript values *)

Undefined == [type |-> "undefined", val |-> ""]
Null == [type |-> "null", val |-> ""]
Str(s) == [type |-> "string", val |-> s]
NativeFunction(name) == [type |-> "function", val |-> name]
Obj(name) == [type |-> "object", val |-> name]

\* ToBoolean: undefined, null and the empty string are falsy, objects are truthy
Truthy(v) ==
    CASE v.type = "undefined" -> FALSE
      [] v.type = "null" -> FALSE
      [] v.type = "string" -> v.val # ""
      [] OTHER -> TRUE

\* a || b
OrElse(a, b) == IF Truthy(a) THEN a ELSE b

\* `${v}` in a template literal
ToStr(v) ==
    CASE v.type = "string" -> v.val
      [] v.type = "undefined" -> "undefined"
      [] v.type = "null" -> "null"
      [] v.type = "function" -> "function " \o v.val \o "() { [native code] }"
      [] OTHER -> "[object Object]"

\* Properties every object literal inherits from Object.prototype
ObjectPrototype ==
    [constructor |-> NativeFunction("Object"),
     toString |-> NativeFunction("toString"),
     __proto__ |-> Obj("Object.prototype")]

\* obj[key] on an object created by {}: own property, else the prototype's
GetProperty(obj, key) ==
    IF key \in DOMAIN obj THEN obj[key]
    ELSE IF key \in DOMAIN ObjectPrototype THEN ObjectPrototype[key]
    ELSE Undefined

\* obj[key] = value
SetProperty(obj, key, value) ==
    [k \in DOMAIN obj \cup {key} |-> IF k = key THEN value ELSE obj[k]]

\* a delete that removes nothing
DeletePropertyKeepsKey(obj, key) == obj

\* a delete that empties the object when the key is not one of its own
DeletePropertyClearsMissing(obj, key) ==
    IF key \in DOMAIN obj THEN [k \in DOMAIN obj \ {key} |-> obj[k]] ELSE <<>>

\* delete obj[key]
DeleteProperty(obj, key) ==
    [k \in DOMAIN obj \ {key} |-> obj[k]]

-----------------------------------------------------------------------------
(* Strings: toLowerCase and includes, as the catch block uses them *)

LowerChar(c) ==
    CASE c = "X" -> "x" [] c = "R" -> "r" [] c = "I" -> "i"
      [] c = "P" -> "p" [] c = "D" -> "d" [] c = "F" -> "f"
      [] c = "C" -> "c" [] OTHER -> c

RECURSIVE ToLowerCase(_)
ToLowerCase(s) ==
    IF Len(s) = 0 THEN ""
    ELSE LowerChar(SubSeq(s, 1, 1)) \o ToLowerCase(SubSeq(s, 2, Len(s)))

Includes(s, sub) ==
    \E i \in 1..(Len(s) - Len(sub) + 1) : SubSeq(s, i, i + Len(sub) - 1) = sub

-----------------------------------------------------------------------------
(* Inputs and outcomes of the collaborators *)

\* data.text of pdf-parse for the file of upload u: the text of its document, or
\* the empty string (a document with no text layer)
DocumentTexts(u) == {"", "Text of document " \o ToString(u)}

\* errors pdf() rejects with (error.message)
PdfErrors == {Str("bad XRef entry"), Str("Invalid PDF structure")}

\* completion.choices[0]?.message?.content of a Groq completion that answers
GroqContents == {Str("LawWise says ...")}

\* errors groq.chat.completions.create rejects with
GroqErrors == {Str("Connection error.")}

\* question of a follow-up body
Questions == {Undefined, Str("What is the rent?")}

\* an id generator that returns the same id again
UuidRepeating(n) == "uuid-1"

\* The n-th value uuidv4() returns: version 4 UUIDs, taken as never repeating
Uuid(n) == "uuid-" \o ToString(n)

\* sessionId of a follow-up body: absent, made up, or one uuidv4 can return
ClientSessionIds ==
    {Undefined, Str("bogus-id"), Str("constructor")}
        \cup {Str(Uuid(n)) : n \in 1..MaxUploads}

-----------------------------------------------------------------------------
(* Responses *)

\* res.status(status).json({error, message, sessionId})
Response(status, error, message, sessionId) ==
    [status |-> status, error |-> error, message |-> message,
     sessionId |-> sessionId]

NoResponse == Response(0, Undefined, Undefined, Undefined)

NoFileError == Str("No PDF file uploaded.")
CorruptedPdfError ==
    Str("The uploaded PDF appears to be corrupted. Please re-save it and try again.")
ProcessFailedError == Str("Failed to process the PDF file.")
RequiredError == Str("Session ID and question are required.")
SessionExpiredError ==
    Str("Your document session has expired or is invalid. Please upload the document again.")
AIFailedError == Str("Failed to get a response from the AI.")

\* error.message && error.message.toLowerCase().includes('xref')
IsXrefError(message) ==
    Truthy(message) /\ Includes(ToLowerCase(message.val), "xref")

\* a catch block that sends the message of the error it caught
UploadCatchSendingErrorMessage(message) ==
    IF IsXrefError(message)
    THEN Response(400, CorruptedPdfError, Undefined, Undefined)
    ELSE Response(500, message, Undefined, Undefined)

\* catch block of /api/upload
UploadCatch(message) ==
    IF IsXrefError(message)
    THEN Response(400, CorruptedPdfError, Undefined, Undefined)
    ELSE Response(500, ProcessFailedError, Undefined, Undefined)

\* completion.choices[0]?.message?.content || "I was unable to analyze the document."
InitialAnalysisResult(content) ==
    OrElse(content, Str("I was unable to analyze the document."))

\* completion.choices[0]?.message?.content || "Sorry, I couldn't find an answer ..."
FollowUpResult(content) ==
    OrElse(content, Str("Sorry, I couldn't find an answer to that question."))

\* the user message getFollowUpAIResponse sends
FollowUpPrompt(documentText, question) ==
    <<"Here is the full document text for context:", ToStr(documentText),
      "Now, please answer my specific question:", ToStr(question)>>

NoPrompt == <<>>

-----------------------------------------------------------------------------
(* The translation variant: languages, translateText, prompts, responses *)

LANGUAGES ==
    [English |-> Str("en-IN"), Hindi |-> Str("hi-IN"), Gujarati |-> Str("gu-IN"),
     Bengali |-> Str("bn-IN"), Kannada |-> Str("kn-IN"), Punjabi |-> Str("pa-IN")]

\* a destructuring default: const { x = d } = req.body
Default(v, d) == IF v.type = "undefined" THEN d ELSE v

\* LANGUAGES[language] || LANGUAGES['English']
TargetLanguageCode(language) ==
    OrElse(GetProperty(LANGUAGES, ToStr(language)), LANGUAGES["English"])

RECURSIVE TrimStart(_)
TrimStart(s) ==
    IF Len(s) > 0 /\ SubSeq(s, 1, 1) = " " THEN TrimStart(SubSeq(s, 2, Len(s))) ELSE s

RECURSIVE TrimEnd(_)
TrimEnd(s) ==
    IF Len(s) > 0 /\ SubSeq(s, Len(s), Len(s)) = " "
    THEN TrimEnd(SubSeq(s, 1, Len(s) - 1)) ELSE s

\* s.trim()
Trim(s) == TrimEnd(TrimStart(s))

\* translateText returns its text at once when the target is English
TranslateReturnsText(targetLanguageCode) == targetLanguageCode = Str("en-IN")

\* what the Sarvam translation service makes of a text
Translated(text, sourceLanguageCode, targetLanguageCode) ==
    "<" \o ToStr(sourceLanguageCode) \o ">" \o ToStr(targetLanguageCode) \o "> " \o text

\* response.data.translated_text of a translation call that succeeds
TranslatedTexts(text, sourceLanguageCode, targetLanguageCode) ==
    {Undefined, Str(Translated(ToStr(text), sourceLanguageCode, targetLanguageCode))}

\* return response.data.translated_text || text
TranslateTextResult(translated_text, text) == OrElse(translated_text, text)

systemPrompt == "You are LawWise, a helpful legal assistant chatbot. ..."

\* the user prompt of the translation variant's /api/upload
UploadUserPrompt(documentText, englishUserQuestion) ==
    LET userPrompt == "Here is the legal document ... Document Text: "
                        \o ToStr(documentText)
    IN IF Truthy(englishUserQuestion)
       THEN userPrompt \o " Additional question from user: "
                \o ToStr(englishUserQuestion)
       ELSE userPrompt

UploadMessages(documentText, englishUserQuestion) ==
    << [role |-> "system", content |-> systemPrompt],
       [role |-> "user",
        content |-> UploadUserPrompt(documentText, englishUserQuestion)] >>

\* axios.post(`${SARVAM_BASE_URL}/chat/completions`, {model, messages})
SarvamCall(messages) == [provider |-> "sarvam", messages |-> messages]

\* a fallback that forwards the conversation without its system prompt
FallbackCallDroppingSystemPrompt(messages) ==
    [provider |-> "groq", messages |-> Tail(messages)]

\* getGroqAnalysis(messages) in the catch block of getSarvamChatResponse
FallbackCall(messages) == [provider |-> "groq", messages |-> messages]

\* response.data.choices[0]?.message?.content || "I was unable to process your request."
SarvamResult(content) == OrElse(content, Str("I was unable to process your request."))

\* completion.choices[0]?.message?.content || "I was unable to analyze the document."
GroqResult(content) == OrElse(content, Str("I was unable to analyze the document."))

\* what getGroqAnalysis returns from its catch block
GroqApology ==
    Str("Sorry, I encountered an error while analyzing the document with the AI service.")

\* res.status(status).json(...) of the translation variant's /api/upload
TranslationResponse(status, error, message, translatedUserQuestion) ==
    [status |-> status, error |-> error, message |-> message,
     translatedUserQuestion |-> translatedUserQuestion]

NoTranslationResponse == TranslationResponse(0, Undefined, Undefined, Undefined)

\* language and userQuestion of an upload body
Languages == {Undefined, Str("Hindi"), Str("Klingon")}
UserQuestions == {Undefined, Str("  "), Str("Kiraya kitna hai?")}

\* completion content of a provider that answers
ProviderContents == {Undefined, Str("This is a rental agreement ...")}

-----------------------------------------------------------------------------
(* State *)

UploadIds == 1..MaxUploads

IdleUpload ==
    [pc |-> "idle", thrownBy |-> "none", sessionId |-> Undefined,
     documentText |-> Undefined, res |-> NoResponse]

IdleChat ==
    [pc |-> "idle", sessionId |-> Undefined, question |-> Undefined,
     documentText |-> Undefined, prompt |-> NoPrompt, res |-> NoResponse]

IdleTranslationUpload ==
    [pc |-> "idle", language |-> Undefined, targetLanguageCode |-> Undefined,
     userQuestion |-> Undefined, documentText |-> Undefined,
     englishUserQuestion |-> Undefined, messages |-> <<>>,
     calls |-> <<>>, failed |-> {}, answered |-> Undefined,
     aiSummary |-> Undefined, translating |-> Undefined, then |-> 0,
     res |-> NoTranslationResponse]

\* the ChatArea component after its first render: variant names the file,
\* "session" for the client of the session variant, "translation" for the other
IdleClient(variant) ==
    [variant |-> variant, isProcessing |-> FALSE, currentDocSessionId |-> Null,
     currentChat |-> FALSE, messages |-> <<>>, inflight |-> <<>>, sendCount |-> 0]

Init ==
    /\ documentContextStore = <<>>
    /\ timers = {}
    /\ uuidCount = 0
    /\ uploads = [u \in UploadIds |-> IdleUpload]
    /\ chat = IdleChat
    /\ translationUpload = IdleTranslationUpload
    /\ client = IdleClient("session")

-----------------------------------------------------------------------------
(* POST /api/upload, session variant *)

\* the request arrives: if (!req.file) 400, else await pdf(req.file.buffer)
UploadReceive(u, hasFile) ==
    /\ uploads[u].pc = "idle"
    /\ \A v \in UploadIds : v < u => uploads[v].pc # "idle"
    /\ uploads' = [uploads EXCEPT ![u] =
          IF ~hasFile
          THEN [@ EXCEPT !.pc = "done",
                         !.res = Response(400, NoFileError, Undefined, Undefined)]
          ELSE [@ EXCEPT !.pc = "parsing"]]
    /\ UNCHANGED <<documentContextStore, timers, uuidCount, chat>>
    /\ UNCHANGED translationVars
    /\ UNCHANGED clientVars

\* a handler that numbers its sessions by the entries now in the store
UploadParsedCountingLive(u, text) ==
    /\ uploads[u].pc = "parsing"
    /\ LET sessionId == Uuid(Cardinality(DOMAIN documentContextStore) + 1)
       IN /\ uuidCount' = uuidCount + 1
          /\ documentContextStore' =
                SetProperty(documentContextStore, sessionId, Str(text))
          /\ timers' = timers \cup {sessionId}
          /\ uploads' = [uploads EXCEPT ![u] =
                [@ EXCEPT !.pc = "analysing", !.sessionId = Str(sessionId),
                          !.documentText = Str(text)]]
    /\ UNCHANGED chat
    /\ UNCHANGED translationVars
    /\ UNCHANGED clientVars

\* a handler that stores the session and schedules no purge for it
UploadParsedNoTimer(u, text) ==
    /\ uploads[u].pc = "parsing"
    /\ LET sessionId == Uuid(uuidCount + 1)
       IN /\ uuidCount' = uuidCount + 1
          /\ documentContextStore' =
                SetProperty(documentContextStore, sessionId, Str(text))
          /\ uploads' = [uploads EXCEPT ![u] =
                [@ EXCEPT !.pc = "analysing", !.sessionId = Str(sessionId),
                          !.documentText = Str(text)]]
    /\ UNCHANGED <<timers, chat>>
    /\ UNCHANGED translationVars
    /\ UNCHANGED clientVars

\* pdf() resolves: create the session, schedule its purge, await the analysis
UploadParsed(u, text) ==
    /\ uploads[u].pc = "parsing"
    /\ LET sessionId == Uuid(uuidCount + 1)
       IN /\ uuidCount' = uuidCount + 1
          /\ documentContextStore' =
                SetProperty(documentContextStore, sessionId, Str(text))
          /\ timers' = timers \cup {sessionId}
          /\ uploads' = [uploads EXCEPT ![u] =
                [@ EXCEPT !.pc = "analysing", !.sessionId = Str(sessionId),
                          !.documentText = Str(text)]]
    /\ UNCHANGED chat
    /\ UNCHANGED translationVars
    /\ UNCHANGED clientVars

\* a handler that creates the session before it awaits pdf()
UploadParseThrowsAfterCreate(u, message) ==
    /\ uploads[u].pc = "parsing"
    /\ LET sessionId == Uuid(uuidCount + 1)
       IN /\ uuidCount' = uuidCount + 1
          /\ documentContextStore' =
                SetProperty(documentContextStore, sessionId, Str(""))
          /\ timers' = timers \cup {sessionId}
          /\ uploads' = [uploads EXCEPT ![u] =
                [@ EXCEPT !.pc = "done", !.thrownBy = "pdf",
                          !.res = UploadCatch(message)]]
    /\ UNCHANGED chat
    /\ UNCHANGED translationVars
    /\ UNCHANGED clientVars

\* pdf() rejects: the catch block answers
UploadParseThrows(u, message) ==
    /\ uploads[u].pc = "parsing"
    /\ uploads' = [uploads EXCEPT ![u] =
          [@ EXCEPT !.pc = "done", !.thrownBy = "pdf", !.res = UploadCatch(message)]]
    /\ UNCHANGED <<documentContextStore, timers, uuidCount, chat>>
    /\ UNCHANGED translationVars
    /\ UNCHANGED clientVars

\* getInitialAIAnalysis resolves: res.json({message, sessionId})
UploadAnalysed(u, content) ==
    /\ uploads[u].pc = "analysing"
    /\ uploads' = [uploads EXCEPT ![u] =
          [@ EXCEPT !.pc = "done",
                    !.res = Response(200, Undefined, InitialAnalysisResult(content),
                                     uploads[u].sessionId)]]
    /\ UNCHANGED <<documentContextStore, timers, uuidCount, chat>>
    /\ UNCHANGED translationVars
    /\ UNCHANGED clientVars

\* a catch block that logs the error and sends nothing
UploadAnalysisThrowsSilently(u, message) ==
    /\ uploads[u].pc = "analysing"
    /\ uploads' = [uploads EXCEPT ![u] =
          [@ EXCEPT !.pc = "done", !.thrownBy = "groq"]]
    /\ UNCHANGED <<documentContextStore, timers, uuidCount, chat>>
    /\ UNCHANGED translationVars
    /\ UNCHANGED clientVars

\* getInitialAIAnalysis rejects: the catch block answers
UploadAnalysisThrows(u, message) ==
    /\ uploads[u].pc = "analysing"
    /\ uploads' = [uploads EXCEPT ![u] =
          [@ EXCEPT !.pc = "done", !.thrownBy = "groq", !.res = UploadCatch(message)]]
    /\ UNCHANGED <<documentContextStore, timers, uuidCount, chat>>
    /\ UNCHANGED translationVars
    /\ UNCHANGED clientVars

\* the setTimeout callback of a session runs: delete documentContextStore[sessionId]
ExpireSession(sessionId) ==
    /\ sessionId \in timers
    /\ documentContextStore' = DeleteProperty(documentContextStore, sessionId)
    /\ timers' = timers \ {sessionId}
    /\ UNCHANGED <<uuidCount, uploads, chat>>
    /\ UNCHANGED translationVars
    /\ UNCHANGED clientVars

-----------------------------------------------------------------------------
(* POST /api/chat, session variant *)

\* A handler that has sent its response has returned: its locals are gone and
\* only the response remains
ChatDone(res) == [IdleChat EXCEPT !.pc = "done", !.res = res]

\* a handler that looks the session up before it validates the body
ChatReceiveLookupFirst(sessionId, question) ==
    /\ chat.pc \in {"idle", "done"}
    /\ LET documentText == GetProperty(documentContextStore, ToStr(sessionId))
       IN chat' =
            IF ~Truthy(documentText)
            THEN ChatDone(Response(404, SessionExpiredError, Undefined, Undefined))
            ELSE IF ~Truthy(sessionId) \/ ~Truthy(question)
            THEN ChatDone(Response(400, RequiredError, Undefined, Undefined))
            ELSE [IdleChat EXCEPT !.pc = "answering", !.sessionId = sessionId,
                    !.question = question, !.documentText = documentText,
                    !.prompt = FollowUpPrompt(documentText, question)]
    /\ UNCHANGED <<documentContextStore, timers, uuidCount, uploads>>
    /\ UNCHANGED translationVars
    /\ UNCHANGED clientVars

\* a handler that removes the session it has read
ChatReceiveConsuming(sessionId, question) ==
    /\ chat.pc \in {"idle", "done"}
    /\ LET documentText == GetProperty(documentContextStore, ToStr(sessionId))
       IN IF ~Truthy(sessionId) \/ ~Truthy(question)
          THEN /\ chat' = ChatDone(Response(400, RequiredError, Undefined, Undefined))
               /\ UNCHANGED documentContextStore
          ELSE IF ~Truthy(documentText)
          THEN /\ chat' = ChatDone(Response(404, SessionExpiredError, Undefined,
                                            Undefined))
               /\ UNCHANGED documentContextStore
          ELSE /\ chat' = [IdleChat EXCEPT !.pc = "answering",
                             !.sessionId = sessionId,
                             !.question = question, !.documentText = documentText,
                             !.prompt = FollowUpPrompt(documentText, question)]
               /\ documentContextStore' =
                     DeleteProperty(documentContextStore, ToStr(sessionId))
    /\ UNCHANGED <<timers, uuidCount, uploads>>
    /\ UNCHANGED translationVars
    /\ UNCHANGED clientVars

\* the request arrives: validate, look the session up, await the answer
ChatReceive(sessionId, question) ==
    /\ chat.pc \in {"idle", "done"}
    /\ LET documentText == GetProperty(documentContextStore, ToStr(sessionId))
       IN chat' =
            IF ~Truthy(sessionId) \/ ~Truthy(question)
            THEN ChatDone(Response(400, RequiredError, Undefined, Undefined))
            ELSE IF ~Truthy(documentText)
            THEN ChatDone(Response(404, SessionExpiredError, Undefined, Undefined))
            ELSE [IdleChat EXCEPT !.pc = "answering", !.sessionId = sessionId,
                    !.question = question, !.documentText = documentText,
                    !.prompt = FollowUpPrompt(documentText, question)]
    /\ UNCHANGED <<documentContextStore, timers, uuidCount, uploads>>
    /\ UNCHANGED translationVars
    /\ UNCHANGED clientVars

\* a handler that reads the session again when the answer arrives
ChatAnsweredRereading(content) ==
    /\ chat.pc = "answering"
    /\ chat' =
          IF Truthy(GetProperty(documentContextStore, ToStr(chat.sessionId)))
          THEN ChatDone(Response(200, Undefined, FollowUpResult(content), Undefined))
          ELSE ChatDone(Response(404, SessionExpiredError, Undefined, Undefined))
    /\ UNCHANGED <<documentContextStore, timers, uuidCount, uploads>>
    /\ UNCHANGED translationVars
    /\ UNCHANGED clientVars

\* getFollowUpAIResponse resolves: res.json({message})
ChatAnswered(content) ==
    /\ chat.pc = "answering"
    /\ chat' = ChatDone(Response(200, Undefined, FollowUpResult(content), Undefined))
    /\ UNCHANGED <<documentContextStore, timers, uuidCount, uploads>>
    /\ UNCHANGED translationVars
    /\ UNCHANGED clientVars

\* a catch block that drops the session whose follow-up failed
ChatAnswerThrowsDroppingSession(message) ==
    /\ chat.pc = "answering"
    /\ chat' = ChatDone(Response(500, AIFailedError, Undefined, Undefined))
    /\ documentContextStore' =
          DeleteProperty(documentContextStore, ToStr(chat.sessionId))
    /\ UNCHANGED <<timers, uuidCount, uploads>>
    /\ UNCHANGED translationVars
    /\ UNCHANGED clientVars

\* getFollowUpAIResponse rejects: 500
ChatAnswerThrows(message) ==
    /\ chat.pc = "answering"
    /\ chat' = ChatDone(Response(500, AIFailedError, Undefined, Undefined))
    /\ UNCHANGED <<documentContextStore, timers, uuidCount, uploads>>
    /\ UNCHANGED translationVars
    /\ UNCHANGED clientVars

-----------------------------------------------------------------------------
(* POST /api/upload, translation variant *)

\* the handler sends its response: status and body follow from where it stands
TranslationRespond(h, text) ==
    [h EXCEPT !.pc = "done", !.translating = Undefined, !.then = 0,
        !.res = IF h.then = 200
                THEN TranslationResponse(200, Undefined, text, h.englishUserQuestion)
                ELSE TranslationResponse(h.then, text, Undefined, Undefined)]

\* await translateText(text, targetLanguageCode), then respond with status `then`
TranslateThenRespond(h, text, then) ==
    IF TranslateReturnsText(h.targetLanguageCode)
    THEN TranslationRespond([h EXCEPT !.then = then], text)
    ELSE [h EXCEPT !.pc = "translating", !.translating = text, !.then = then]

\* the request arrives: no file is a 400, else await pdf(req.file.buffer)
TranslationUploadReceive(language, hasFile, userQuestion) ==
    /\ translationUpload.pc \in {"idle", "done"}
    /\ LET lang == Default(language, Str("English"))
           h == [IdleTranslationUpload EXCEPT
                    !.language = lang,
                    !.targetLanguageCode = TargetLanguageCode(lang),
                    !.userQuestion = Default(userQuestion, Str(""))]
       IN translationUpload' =
            IF ~hasFile
            THEN TranslateThenRespond(h, Str("No PDF file uploaded."), 400)
            ELSE [h EXCEPT !.pc = "parsing"]
    /\ UNCHANGED sessionVars
    /\ UNCHANGED clientVars

\* pdf() resolves: the question goes through translateText(userQuestion, "en-IN",
\* targetLanguageCode), whose target is English; then Sarvam is asked
TranslationUploadParsed(text) ==
    /\ translationUpload.pc = "parsing"
    /\ LET h == translationUpload
           englishUserQuestion ==
               IF Trim(h.userQuestion.val) # ""
               THEN IF TranslateReturnsText(Str("en-IN"))
                    THEN h.userQuestion
                    ELSE Str(Translated(h.userQuestion.val, h.targetLanguageCode,
                                        Str("en-IN")))
               ELSE Str("")
           messages == UploadMessages(Str(text), englishUserQuestion)
       IN translationUpload' =
            [h EXCEPT !.pc = "sarvam", !.documentText = Str(text),
                      !.englishUserQuestion = englishUserQuestion,
                      !.messages = messages,
                      !.calls = <<SarvamCall(messages)>>]
    /\ UNCHANGED sessionVars
    /\ UNCHANGED clientVars

\* pdf() rejects: the catch block translates its message and answers 500
TranslationUploadParseThrows ==
    /\ translationUpload.pc = "parsing"
    /\ translationUpload' =
          TranslateThenRespond(translationUpload,
                               Str("Failed to process the PDF file."), 500)
    /\ UNCHANGED sessionVars
    /\ UNCHANGED clientVars

\* the Sarvam completion resolves
SarvamAnswers(content) ==
    /\ translationUpload.pc = "sarvam"
    /\ LET aiSummary == SarvamResult(content)
       IN translationUpload' =
            TranslateThenRespond(
                [translationUpload EXCEPT
                    !.aiSummary = aiSummary,
                    !.answered = [provider |-> "sarvam", content |-> content]],
                aiSummary, 200)
    /\ UNCHANGED sessionVars
    /\ UNCHANGED clientVars

\* the Sarvam call rejects, or its response has no choices: fall back to Groq
SarvamThrows ==
    /\ translationUpload.pc = "sarvam"
    /\ translationUpload' =
          [translationUpload EXCEPT
              !.pc = "groq",
              !.failed = @ \cup {"sarvam"},
              !.calls = Append(@, FallbackCall(translationUpload.messages))]
    /\ UNCHANGED sessionVars
    /\ UNCHANGED clientVars

\* the Groq completion resolves
GroqAnswers(content) ==
    /\ translationUpload.pc = "groq"
    /\ LET aiSummary == GroqResult(content)
       IN translationUpload' =
            TranslateThenRespond(
                [translationUpload EXCEPT
                    !.aiSummary = aiSummary,
                    !.answered = [provider |-> "groq", content |-> content]],
                aiSummary, 200)
    /\ UNCHANGED sessionVars
    /\ UNCHANGED clientVars

\* the Groq call rejects: getGroqAnalysis catches and returns its apology
GroqThrows ==
    /\ translationUpload.pc = "groq"
    /\ translationUpload' =
          TranslateThenRespond(
              [translationUpload EXCEPT
                  !.aiSummary = GroqApology, !.failed = @ \cup {"groq"}],
              GroqApology, 200)
    /\ UNCHANGED sessionVars
    /\ UNCHANGED clientVars

\* the translation call of translateText resolves
TranslateResolves(translated_text) ==
    /\ translationUpload.pc = "translating"
    /\ translationUpload' =
          TranslationRespond(translationUpload,
              TranslateTextResult(translated_text, translationUpload.translating))
    /\ UNCHANGED sessionVars
    /\ UNCHANGED clientVars

\* a translateText without its catch block: the rejection reaches the handler
TranslateThrowsSurfacing ==
    /\ translationUpload.pc = "translating"
    /\ translationUpload' =
          TranslationRespond([translationUpload EXCEPT !.then = 500],
                             Str("Failed to process the PDF file."))
    /\ UNCHANGED sessionVars
    /\ UNCHANGED clientVars

\* the translation call rejects: translateText returns the text as it is
TranslateThrows ==
    /\ translationUpload.pc = "translating"
    /\ translationUpload' =
          TranslationRespond(translationUpload, translationUpload.translating)
    /\ UNCHANGED sessionVars
    /\ UNCHANGED clientVars

-----------------------------------------------------------------------------
(* The translation variant of the server *)

TranslationNext ==
    \/ \E language \in Languages, hasFile \in BOOLEAN, userQuestion \in UserQuestions :
          TranslationUploadReceive(language, hasFile, userQuestion)
    \/ \E text \in DocumentTexts(1) : TranslationUploadParsed(text)
    \/ TranslationUploadParseThrows
    \/ \E content \in ProviderContents : SarvamAnswers(content)
    \/ SarvamThrows
    \/ \E content \in ProviderContents : GroqAnswers(content)
    \/ GroqThrows
    \/ \E translated_text \in
            TranslatedTexts(translationUpload.translating, Str("en-IN"),
                            translationUpload.targetLanguageCode) :
          TranslateResolves(translated_text)
    \/ TranslateThrows

TranslationSpec == Init /\ [][TranslationNext]_vars

-----------------------------------------------------------------------------
(* The session variant of the server *)

Next ==
    \/ \E u \in UploadIds, hasFile \in BOOLEAN : UploadReceive(u, hasFile)
    \/ \E u \in UploadIds : \E text \in DocumentTexts(u) : UploadParsed(u, text)
    \/ \E u \in UploadIds, message \in PdfErrors : UploadParseThrows(u, message)
    \/ \E u \in UploadIds, content \in GroqContents : UploadAnalysed(u, content)
    \/ \E u \in UploadIds, message \in GroqErrors : UploadAnalysisThrows(u, message)
    \/ \E sessionId \in timers : ExpireSession(sessionId)
    \/ \E sessionId \in ClientSessionIds, question \in Questions :
          ChatReceive(sessionId, question)
    \/ \E content \in GroqContents : ChatAnswered(content)
    \/ \E message \in GroqErrors : ChatAnswerThrows(message)

Spec == Init /\ [][Next]_vars

\* Node runs every pending timer callback once its delay has passed
FairSpec == Spec /\ \A n \in 1..MaxUploads : WF_vars(ExpireSession(Uuid(n)))

-----------------------------------------------------------------------------
(* Vocabulary of the claims *)

\* the session ids uuidv4 has produced so far
Created == {Uuid(n) : n \in 1..uuidCount}

\* the expiry action scheduled at the creation of session id has run
Fired(id) == id \in Created /\ id \notin timers

\* some upload has answered its client with session id s
Returned(s) ==
    \E u \in UploadIds :
        /\ uploads[u].pc = "done"
        /\ uploads[u].res.status = 200
        /\ uploads[u].res.sessionId = s

\* get(sessionId) of the store, as /api/chat performs it: the text or NotFound
Lookup(s) == GetProperty(documentContextStore, ToStr(s))
NotFound(s) == ~Truthy(Lookup(s))

-----------------------------------------------------------------------------
(* C1: round trip. A follow-up sent with a session id an upload has returned, *)
(* before that session's expiry has fired, reads exactly the text the upload  *)
(* stored (the empty text included) and is not answered 404.                  *)
C1_RoundTrip ==
    [][\A u \in UploadIds, q \in Questions :
          ( /\ uploads[u].pc = "done" /\ uploads[u].res.status = 200
            /\ ToStr(uploads[u].res.sessionId) \in timers
            /\ Truthy(q)
            /\ ChatReceive(uploads[u].res.sessionId, q) )
          => ( /\ chat'.pc = "answering"
               /\ chat'.documentText = uploads[u].documentText )]_vars

(* C2: in every reachable state, the lookup of any non-empty session id that *)
(* no upload has returned gives NotFound.                                     *)
C2_UnknownIdNotFound ==
    \A s \in ClientSessionIds : (Truthy(s) /\ ~Returned(s)) => NotFound(s)

(* C3: once the expiry of a session has fired, its lookup is NotFound in      *)
(* every later state and every follow-up naming it is answered 404; and with  *)
(* fair timers every session that is created has its expiry fire (created and *)
(* fired are both permanent, so "again and again" is "from some point on").   *)
C3_ExpiryTakesEffect ==
    /\ [](\A n \in 1..MaxUploads : Fired(Uuid(n)) => NotFound(Str(Uuid(n))))
    /\ [][\A n \in 1..MaxUploads, q \in Questions :
            (Fired(Uuid(n)) /\ Truthy(q) /\ ChatReceive(Str(Uuid(n)), q))
            => (chat'.pc = "done" /\ chat'.res.status = 404)]_vars
    /\ \A n \in 1..MaxUploads :
            []<>(Uuid(n) \in Created => Fired(Uuid(n)))

\* a follow-up read a session successfully, and the session has expired since
C3_Witness ==
    /\ chat.pc = "answering"
    /\ chat.documentText.type = "string"
    /\ Fired(ToStr(chat.sessionId))
    /\ NotFound(chat.sessionId)

(* C4: a follow-up with a session id and a question whose session id names   *)
(* no live session (unknown or expired) is answered 404 at once, and the     *)
(* answering collaborator is not called.                                     *)
C4_UnknownSessionIs404 ==
    [][\A s \in ClientSessionIds, q \in Questions :
          ( /\ Truthy(s) /\ Truthy(q)
            /\ ToStr(s) \notin DOMAIN documentContextStore
            /\ ChatReceive(s, q) )
          => (chat'.pc = "done" /\ chat'.res.status = 404)]_vars

(* C5: an upload that has been answered with an error response has left no   *)
(* entry of its own in the store.                                            *)
C5_NoSessionOnError ==
    \A u \in UploadIds :
        (uploads[u].pc = "done" /\ uploads[u].res.status >= 400)
        => ToStr(uploads[u].sessionId) \notin DOMAIN documentContextStore

(* C6: when pdf() fails, the request creates no session: the step that       *)
(* handles the failure leaves the store and the pending expiries as they     *)
(* were, and the request never held a session id.                            *)
C6_ExtractionFailureCreatesNoSession ==
    /\ [][\A u \in UploadIds :
            (uploads[u].pc # "done" /\ uploads'[u].thrownBy = "pdf")
            => ( /\ documentContextStore' = documentContextStore
                 /\ timers' = timers
                 /\ uuidCount' = uuidCount )]_vars
    /\ [](\A u \in UploadIds :
            uploads[u].thrownBy = "pdf"
            => ( /\ uploads[u].sessionId = Undefined
                 /\ Cardinality(DOMAIN documentContextStore)
                      <= Cardinality({v \in UploadIds : uploads[v].thrownBy # "pdf"}) ))

\* an extraction has failed while another upload's session is in the store
C6_Witness ==
    /\ \E u \in UploadIds : uploads[u].pc = "done" /\ uploads[u].thrownBy = "pdf"
    /\ DOMAIN documentContextStore # {}

(* C7: every failure of pdf() is answered with the "re-save it and try       *)
(* again" error, never with "Failed to process the PDF file."                *)
C7_ExtractionFailureReported ==
    \A u \in UploadIds :
        (uploads[u].pc = "done" /\ uploads[u].thrownBy = "pdf")
        => uploads[u].res = Response(400, CorruptedPdfError, Undefined, Undefined)

(* C8: when the Sarvam call and the Groq call of a request both fail, the   *)
(* request is answered with an error response, not with a 200 that carries *)
(* a message.                                                              *)
C8_BothProvidersFailIsError ==
    ( /\ translationUpload.pc = "done"
      /\ translationUpload.failed = {"sarvam", "groq"} )
    => ( /\ translationUpload.res.status >= 500
         /\ translationUpload.res.message = Undefined )

(* C9: for every answer request Sarvam is called first; Groq is called if    *)
(* and only if the Sarvam call failed, with the same messages; and when Groq *)
(* answers, its answer is the summary the request returns.                   *)
C9_FallbackOrdering ==
    LET h == translationUpload
        groqCalled == \E i \in 1..Len(h.calls) : h.calls[i].provider = "groq"
    IN /\ Len(h.calls) <= 2
       /\ Len(h.calls) >= 1 => h.calls[1] = SarvamCall(h.messages)
       /\ Len(h.calls) = 2 =>
            /\ h.calls[2].provider = "groq"
            /\ h.calls[2].messages = h.calls[1].messages
       /\ groqCalled <=> "sarvam" \in h.failed
       /\ (h.answered # Undefined /\ h.answered.provider = "groq") =>
            /\ groqCalled
            /\ Truthy(h.answered.content) => h.aiSummary = h.answered.content
            /\ h.pc = "done" =>
                 /\ h.res.status = 200
                 /\ h.res.message \in
                      {h.aiSummary,
                       Str(Translated(ToStr(h.aiSummary), Str("en-IN"),
                                      h.targetLanguageCode))}
                 /\ TranslateReturnsText(h.targetLanguageCode)
                      => h.res.message = h.aiSummary

\* Sarvam failed, Groq answered, and the request returned Groq's answer
C9_Witness ==
    /\ translationUpload.pc = "done"
    /\ translationUpload.failed = {"sarvam"}
    /\ translationUpload.answered # Undefined
    /\ translationUpload.answered.provider = "groq"
    /\ Truthy(translationUpload.answered.content)
    /\ translationUpload.res.message = translationUpload.answered.content

(* C10: an upload without a file and a follow-up without a session id or     *)
(* without a question are answered 400 in the step that receives them,       *)
(* whatever the state of the named session, and the store and the pending    *)
(* expiries stay as they were.                                               *)
C10_InvalidInputRejected ==
    /\ [][\A u \in UploadIds :
            UploadReceive(u, FALSE)
            => ( /\ uploads'[u].pc = "done"
                 /\ uploads'[u].res = Response(400, NoFileError, Undefined, Undefined)
                 /\ documentContextStore' = documentContextStore
                 /\ timers' = timers )]_vars
    /\ [][\A s \in ClientSessionIds, q \in Questions :
            ((~Truthy(s) \/ ~Truthy(q)) /\ ChatReceive(s, q))
            => ( /\ chat'.pc = "done"
                 /\ chat'.res = Response(400, RequiredError, Undefined, Undefined)
                 /\ documentContextStore' = documentContextStore
                 /\ timers' = timers )]_vars

\* both kinds of invalid request have been rejected while a session was live
C10_Witness ==
    /\ \E u \in UploadIds : uploads[u].res.error = NoFileError
    /\ chat.pc = "done" /\ chat.res.status = 400
    /\ DOMAIN documentContextStore # {}

-----------------------------------------------------------------------------
(* Sessions and the uploads that created them *)

\* the uploads whose handler holds session id `id`
Creators(id) == {u \in UploadIds : uploads[u].sessionId = Str(id)}

\* a step of the /api/chat handler
ChatStep == chat' # chat

(* C11: a follow-up never changes the store or a scheduled expiry: every     *)
(* step of the /api/chat handler, whether its lookup succeeds or not, leaves *)
(* the store contents and the pending expiry callbacks as they were, so no   *)
(* read renews or moves a session's expiry.                                  *)
C11_LookupIsSideEffectFree ==
    [][ChatStep =>
          /\ documentContextStore' = documentContextStore
          /\ timers' = timers
          /\ uuidCount' = uuidCount]_vars

\* a follow-up has read a live session, whose entry and expiry are still there
C11_Witness ==
    /\ chat.pc = "answering"
    /\ ToStr(chat.sessionId) \in timers
    /\ ToStr(chat.sessionId) \in DOMAIN documentContextStore
    /\ documentContextStore[ToStr(chat.sessionId)] = chat.documentText

(* C12: a session id that is in the store maps to exactly the text its       *)
(* upload stored at creation, in every reachable state, and no step changes  *)
(* the text of an entry that stays in the store.                             *)
C12_DocumentTextNeverChanges ==
    /\ [](\A id \in DOMAIN documentContextStore :
            /\ Creators(id) # {}
            /\ \A u \in Creators(id) :
                  documentContextStore[id] = uploads[u].documentText)
    /\ [][\A id \in DOMAIN documentContextStore \cap DOMAIN documentContextStore' :
            documentContextStore'[id] = documentContextStore[id]]_vars

\* two sessions with different texts are in the store, one upload has finished
\* and a follow-up is under way
C12_Witness ==
    /\ Cardinality(DOMAIN documentContextStore) = 2
    /\ \E id1, id2 \in DOMAIN documentContextStore :
          documentContextStore[id1] # documentContextStore[id2]
    /\ \E u \in UploadIds : uploads[u].pc = "done"
    /\ chat.pc = "answering"

(* C13: once a session id that was created is no longer in the store, it     *)
(* never is again, and its lookup stays NotFound, whatever step follows.     *)
C13_ExpiredIsTerminal ==
    [][\A n \in 1..MaxUploads :
          (Uuid(n) \in Created /\ Uuid(n) \notin DOMAIN documentContextStore)
          => ( /\ Uuid(n) \notin DOMAIN documentContextStore'
               /\ ~Truthy(GetProperty(documentContextStore', Uuid(n))) )]_vars

\* a session has expired and a later upload has created its own session
C13_Witness ==
    \E n \in 1..MaxUploads :
        /\ Fired(Uuid(n))
        /\ \E u \in UploadIds :
              /\ uploads[u].sessionId \notin {Undefined, Str(Uuid(n))}
              /\ ToStr(uploads[u].sessionId) \in DOMAIN documentContextStore
        /\ uuidCount > n

(* C14: a live session is removed only by its own expiry and is never        *)
(* overwritten, whatever other request or expiry runs; and a session can be  *)
(* looked up exactly from its creation until its own expiry has fired.       *)
C14_RemovedOnlyByOwnExpiry ==
    /\ [][\A id \in DOMAIN documentContextStore :
            /\ id \notin DOMAIN documentContextStore'
                  => (id \in timers /\ id \notin timers')
            /\ id \in DOMAIN documentContextStore'
                  => documentContextStore'[id] = documentContextStore[id]]_vars
    /\ [](\A n \in 1..MaxUploads :
            (Uuid(n) \in Created /\ ~Fired(Uuid(n))) <=> ~NotFound(Str(Uuid(n))))

(* C15: uploads whose handlers interleave at their await points receive      *)
(* pairwise-distinct session ids, and the id given to a new session is not   *)
(* the id of a session that is in the store at that moment.                  *)
C15_DistinctSessionIds ==
    /\ [](\A u, v \in UploadIds :
            (u # v /\ uploads[u].sessionId # Undefined)
               => uploads[u].sessionId # uploads[v].sessionId)
    /\ [][\A u \in UploadIds :
            (uploads[u].sessionId = Undefined /\ uploads'[u].sessionId # Undefined)
               => /\ ToStr(uploads'[u].sessionId) \notin DOMAIN documentContextStore
                  /\ ToStr(uploads'[u].sessionId) \notin Created
                  /\ ToStr(uploads'[u].sessionId) \in DOMAIN documentContextStore']_vars

\* two uploads are awaiting their analysis at once, each with a live session
C15_Witness ==
    \E u, v \in UploadIds :
        /\ u # v
        /\ uploads[u].pc = "analysing"
        /\ uploads[v].pc = "analysing"
        /\ ToStr(uploads[u].sessionId) \in DOMAIN documentContextStore
        /\ ToStr(uploads[v].sessionId) \in DOMAIN documentContextStore

-----------------------------------------------------------------------------
(* The expiry callback on its own: the body of the setTimeout callback run   *)
(* against any store, for any id, whether or not the id is a key of it       *)

\* how many session ids the callback is run for
MaxExpiryIds == 4

\* the ids a callback is run for
ExpiryIds == {Uuid(n) : n \in 1..MaxExpiryIds}

\* the stores uploads can build: some of the sessions, each with its text
ExpiryStores ==
    UNION {{f \in [K -> UNION {{Str(t) : t \in DocumentTexts(n)}
                                  : n \in 1..MaxExpiryIds}] :
              \A n \in 1..MaxExpiryIds :
                  Uuid(n) \in K => f[Uuid(n)] \in {Str(t) : t \in DocumentTexts(n)}}
           : K \in SUBSET ExpiryIds}

\* any store, and a callback pending for every id, in the store or not
ExpiryInit ==
    /\ documentContextStore \in ExpiryStores
    /\ timers = ExpiryIds
    /\ uuidCount = MaxExpiryIds
    /\ uploads = [u \in UploadIds |-> IdleUpload]
    /\ chat = IdleChat
    /\ translationUpload = IdleTranslationUpload
    /\ client = IdleClient("session")

ExpiryNext == \E sessionId \in timers : ExpireSession(sessionId)

ExpirySpec == ExpiryInit /\ [][ExpiryNext]_vars

(* C16: expiry is idempotent: the expiry action run for an id that is not in *)
(* the store leaves the store as it is and is defined (raises nothing), and  *)
(* running it twice for one id gives the store that running it once gives.   *)
C16_ExpiryIdempotent ==
    /\ [](\A id \in ExpiryIds :
            DeleteProperty(DeleteProperty(documentContextStore, id), id)
               = DeleteProperty(documentContextStore, id))
    /\ [][\A id \in timers :
            (id \notin DOMAIN documentContextStore /\ id \notin timers')
               => documentContextStore' = documentContextStore]_vars

\* a callback has run, one is pending for an id that is not in the store,
\* and the store holds a session
C16_Witness ==
    /\ timers # ExpiryIds
    /\ \E id \in timers : id \notin DOMAIN documentContextStore
    /\ documentContextStore # <<>>

(* C17: every session id in the store has an expiry pending for it, also     *)
(* when the upload that created it failed in its analysis step; the expiry   *)
(* is scheduled once, in the step that creates the session, for an id that   *)
(* had none pending.                                                         *)
C17_EveryEntryHasExpiryPending ==
    /\ [](DOMAIN documentContextStore \subseteq timers)
    /\ [][\A u \in UploadIds :
            (uploads[u].sessionId = Undefined /\ uploads'[u].sessionId # Undefined)
               => timers' \ timers = {ToStr(uploads'[u].sessionId)}]_vars
    /\ [][timers' \subseteq timers \/ uuidCount' # uuidCount]_vars

\* an upload failed in its analysis and its session is in the store, pending
C17_Witness ==
    \E u \in UploadIds :
        /\ uploads[u].pc = "done"
        /\ uploads[u].thrownBy = "groq"
        /\ uploads[u].res.status = 500
        /\ ToStr(uploads[u].sessionId) \in DOMAIN documentContextStore
        /\ ToStr(uploads[u].sessionId) \in timers

(* C18: however a follow-up and the expiry of its session interleave, the    *)
(* lookup of a created session yields the text stored at its creation or     *)
(* nothing; a follow-up that read the text before the expiry keeps that text *)
(* in its prompt and can still complete with the collaborator's answer (or   *)
(* the collaborator's failure), never with 404, also when the expiry fires   *)
(* while the answering call is in flight.                                    *)
C18_ReadBeforeDeleteCompletes ==
    /\ [](\A n \in 1..MaxUploads :
            Uuid(n) \in Created
               => \/ NotFound(Str(Uuid(n)))
                  \/ /\ Creators(Uuid(n)) # {}
                     /\ \A u \in Creators(Uuid(n)) :
                           Lookup(Str(Uuid(n))) = uploads[u].documentText)
    /\ []((chat.pc = "answering" /\ ToStr(chat.sessionId) \in Created)
            => /\ Creators(ToStr(chat.sessionId)) # {}
               /\ \A u \in Creators(ToStr(chat.sessionId)) :
                     /\ chat.documentText = uploads[u].documentText
                     /\ chat.prompt =
                           FollowUpPrompt(uploads[u].documentText, chat.question)
               /\ ENABLED (\E content \in GroqContents : ChatAnswered(content)))
    /\ [][(chat.pc = "answering" /\ chat' # chat)
            => \/ \E content \in GroqContents :
                     chat' = ChatDone(Response(200, Undefined,
                                               FollowUpResult(content), Undefined))
               \/ chat' = ChatDone(Response(500, AIFailedError, Undefined,
                                            Undefined))]_vars

\* the expiry fired while the answering call is in flight: the prompt still
\* carries the text the upload stored, and the session is gone from the store
C18_Witness ==
    /\ chat.pc = "answering"
    /\ ToStr(chat.sessionId) \in Created \ timers
    /\ ToStr(chat.sessionId) \notin DOMAIN documentContextStore
    /\ \E u \in Creators(ToStr(chat.sessionId)) :
          /\ uploads[u].documentText # Str("")
          /\ chat.prompt[2] = ToStr(uploads[u].documentText)

(* C19: session isolation: whenever a follow-up has passed its lookup and    *)
(* calls the answering collaborator, its prompt pairs the question of the    *)
(* request with the document text of the session its session id names, and  *)
(* with the text of no other session.                                        *)
C19_SessionIsolation ==
    [](chat.pc = "answering"
         => /\ Creators(ToStr(chat.sessionId)) # {}
            /\ \A u \in UploadIds :
                  IF u \in Creators(ToStr(chat.sessionId))
                  THEN chat.prompt =
                          FollowUpPrompt(uploads[u].documentText, chat.question)
                  ELSE uploads[u].documentText # Undefined
                          => chat.prompt[2] # ToStr(uploads[u].documentText))

(* C20: when the answering collaborator fails during a follow-up for a live  *)
(* session, the request is answered with the generic server error (500) and  *)
(* the store is left as it was: the session keeps its text and its pending   *)
(* expiry, so it stays retrievable until its own expiry fires.               *)
C20_AnswerFailureLeavesStore ==
    [][\A message \in GroqErrors :
          (ChatAnswerThrows(message)
             /\ ToStr(chat.sessionId) \in DOMAIN documentContextStore)
          => /\ chat'.pc = "done"
             /\ chat'.res = Response(500, AIFailedError, Undefined, Undefined)
             /\ documentContextStore' = documentContextStore
             /\ timers' = timers
             /\ ToStr(chat.sessionId) \in timers'
             /\ GetProperty(documentContextStore', ToStr(chat.sessionId))
                   = chat.documentText
             /\ Truthy(GetProperty(documentContextStore',
                                   ToStr(chat.sessionId)))]_vars

\* a follow-up ended with the generic server error and a session is live
C20_Witness ==
    /\ chat.pc = "done"
    /\ chat.res = Response(500, AIFailedError, Undefined, Undefined)
    /\ \E u \in UploadIds :
          /\ uploads[u].sessionId # Undefined
          /\ ~NotFound(uploads[u].sessionId)
          /\ ToStr(uploads[u].sessionId) \in timers

\* the text a response of the translation variant carries
ResponseText(res) == IF res.status = 200 THEN res.message ELSE res.error

(* C21: translateText always returns a text: the step that ends a            *)
(* translation call answers with the status decided before the call and     *)
(* with the translated text or the original text; when the call fails the    *)
(* text is the original one, so a request that was on its way to 200 still   *)
(* ends with 200 and the untranslated answer.                                *)
C21_TranslationFailureNotSurfaced ==
    /\ [][(translationUpload.pc = "translating"
             /\ translationUpload' # translationUpload)
          => /\ translationUpload'.pc = "done"
             /\ translationUpload'.res.status = translationUpload.then
             /\ ResponseText(translationUpload'.res).type = "string"
             /\ ResponseText(translationUpload'.res) \in
                  {translationUpload.translating,
                   Str(Translated(ToStr(translationUpload.translating),
                                  Str("en-IN"),
                                  translationUpload.targetLanguageCode))}]_vars
    /\ [][TranslateThrows
          => /\ ResponseText(translationUpload'.res) = translationUpload.translating
             /\ translationUpload.then = 200
                  => translationUpload'.res =
                        TranslationResponse(200, Undefined,
                                            translationUpload.aiSummary,
                                            translationUpload.englishUserQuestion)]_vars

\* a request in a language other than English ended with 200 and the answer
\* of the provider as it was, untranslated
C21_Witness ==
    /\ translationUpload.pc = "done"
    /\ translationUpload.targetLanguageCode # Str("en-IN")
    /\ translationUpload.res.status = 200
    /\ translationUpload.res.message = translationUpload.aiSummary
    /\ translationUpload.answered # Undefined

\* the fixed error messages of the two handlers of the session variant
UploadErrorMessages == {NoFileError, CorruptedPdfError, ProcessFailedError}
ChatErrorMessages == {RequiredError, SessionExpiredError, AIFailedError}

\* the content of an error a collaborator raised shows in a field of a body
Leaks(field) ==
    /\ field.type = "string"
    /\ \E e \in PdfErrors \cup GroqErrors : Includes(field.val, e.val)

(* C22: every error response of the upload and follow-up handlers carries    *)
(* one of the handler's fixed messages and nothing else, and no field of any *)
(* response body contains the content of an error raised by the extraction   *)
(* or answering collaborator.                                                *)
C22_NoErrorContentInResponses ==
    /\ \A u \in UploadIds :
          /\ uploads[u].res.status >= 400
                => /\ uploads[u].res.error \in UploadErrorMessages
                   /\ uploads[u].res.message = Undefined
                   /\ uploads[u].res.sessionId = Undefined
          /\ ~Leaks(uploads[u].res.error)
          /\ ~Leaks(uploads[u].res.message)
          /\ ~Leaks(uploads[u].res.sessionId)
    /\ chat.res.status >= 400
          => /\ chat.res.error \in ChatErrorMessages
             /\ chat.res.message = Undefined
    /\ ~Leaks(chat.res.error)
    /\ ~Leaks(chat.res.message)

\* the extraction failed for one upload and the analysis for another, and a
\* follow-up failed in the answering call: all three have been answered
C22_Witness ==
    /\ \E u, v \in UploadIds :
          /\ uploads[u].pc = "done" /\ uploads[u].thrownBy = "pdf"
          /\ uploads[u].res.status = 500
          /\ uploads[v].pc = "done" /\ uploads[v].thrownBy = "groq"
    /\ chat.pc = "done"
    /\ chat.res.status = 500

(* C23: in the translation variant, when the language of an upload is not    *)
(* English and the upload carries a question, the question forwarded to the  *)
(* answering provider is the translation service's English rendering of it,  *)
(* not the question as the user wrote it.                                    *)
C23_QuestionTranslatedToEnglish ==
    LET h == translationUpload
        rendering == Str(Translated(h.userQuestion.val, h.targetLanguageCode,
                                    Str("en-IN")))
    IN ( /\ Len(h.calls) >= 1
         /\ h.targetLanguageCode # Str("en-IN")
         /\ Trim(h.userQuestion.val) # "" )
       => /\ h.englishUserQuestion = rendering
          /\ h.englishUserQuestion # h.userQuestion
          /\ h.calls[1].messages = UploadMessages(h.documentText, rendering)

-----------------------------------------------------------------------------
(* A server process runs one of the two variants of server.js *)

\* no request has reached the session variant
SessionVariantIdle ==
    /\ documentContextStore = <<>>
    /\ timers = {}
    /\ uuidCount = 0
    /\ uploads = [u \in UploadIds |-> IdleUpload]
    /\ chat = IdleChat

ServerNext ==
    \/ translationUpload = IdleTranslationUpload /\ Next
    \/ SessionVariantIdle /\ TranslationNext

ServerSpec == Init /\ [][ServerNext]_vars

\* the handler of upload u can take its next step
UploadCanStep(u) ==
    \/ ENABLED (\E text \in DocumentTexts(u) : UploadParsed(u, text))
    \/ ENABLED (\E content \in GroqContents : UploadAnalysed(u, content))

ChatCanStep == ENABLED (\E content \in GroqContents : ChatAnswered(content))

TranslationUploadCanStep ==
    \/ ENABLED (\E text \in DocumentTexts(1) : TranslationUploadParsed(text))
    \/ ENABLED SarvamThrows
    \/ ENABLED GroqThrows
    \/ ENABLED TranslateThrows

\* the statuses the handlers send
SessionStatuses == {200, 400, 404, 500}

(* C24: every upload and follow-up that reaches its handler gets exactly one *)
(* response: a handler has sent a response exactly when it has returned, the *)
(* step that sends it is the handler's last one, a handler that has sent it  *)
(* does nothing more, and a handler that has not sent it yet is waiting for  *)
(* a collaborator whose outcome lets it go on.                               *)
C24_ExactlyOneResponse ==
    /\ [](\A u \in UploadIds :
            /\ (uploads[u].pc = "done") <=> (uploads[u].res # NoResponse)
            /\ uploads[u].res # NoResponse
                  => uploads[u].res.status \in SessionStatuses
            /\ uploads[u].pc \in {"parsing", "analysing"} => UploadCanStep(u))
    /\ []( /\ (chat.pc = "done") <=> (chat.res # NoResponse)
           /\ chat.res # NoResponse => chat.res.status \in SessionStatuses
           /\ chat.pc = "answering" => ChatCanStep )
    /\ []( /\ (translationUpload.pc = "done")
              <=> (translationUpload.res # NoTranslationResponse)
           /\ translationUpload.res # NoTranslationResponse
                 => translationUpload.res.status \in SessionStatuses
           /\ translationUpload.pc \notin {"idle", "done"}
                 => TranslationUploadCanStep )
    /\ [][\A u \in UploadIds :
            uploads[u].res # NoResponse => uploads'[u] = uploads[u]]_vars
    /\ [][chat'.res # chat.res
            => \/ chat.pc = "answering" /\ chat.res = NoResponse
               \/ chat.pc \in {"idle", "done"}]_vars
    /\ [][translationUpload'.res # translationUpload.res
            => \/ translationUpload.pc \notin {"idle", "done"}
                  /\ translationUpload.res = NoTranslationResponse
               \/ translationUpload.pc \in {"idle", "done"}]_vars

\* in the session variant an upload got its session, one failed in its
\* analysis, and a follow-up was answered
C24_Witness ==
    /\ \E u, v \in UploadIds :
          /\ uploads[u].res.status = 200
          /\ uploads[v].res.status = 500 /\ uploads[v].thrownBy = "groq"
    /\ chat.res.status = 200

-----------------------------------------------------------------------------
(* The browser client: the ChatArea component, in its two variants.  A       *)
(* handler reads the state of the render it was created in; React renders    *)
(* again at the end of every event and of every continuation, before the     *)
(* next event is handled.  The continuation after an await whose promise is  *)
(* already settled runs before any other event.                              *)

MaxSends == 3   \* sends of a run that pass the guard of handleSendMessage

\* inputValue when the user sends; a file is staged or not
InputValues == {"", "  ", "What is the rent?"}

\* one message of the chat
Message(content, isUser) == [content |-> content, isUser |-> isUser]

\* useChat(): createNewChat returns the new chat, or its id
CreateNewChatResults == {"Chat", "string"}

\* useChat(): addMessage(content, isUser) appends to the chat on screen
AddMessage(messages, content, isUser) == Append(messages, Message(content, isUser))

\* getChatById throws "Function not implemented."
GetChatByIdThrows == TRUE

\* what fetch and response.json() give the client for POST /api/upload number n
UploadOutcomes(n) ==
    { [kind |-> "ok", message |-> Str("LawWise says ..."),
       sessionId |-> sid, error |-> Undefined]
         : sid \in {Str(Uuid(n)), Undefined} }
    \cup { [kind |-> "notOk", message |-> Undefined, sessionId |-> Undefined,
            error |-> ProcessFailedError],
           [kind |-> "rejected", message |-> Undefined, sessionId |-> Undefined,
            error |-> Str("Failed to fetch")] }

\* the same for POST /api/chat
ChatOutcomes ==
    { [kind |-> "ok", message |-> Str("LawWise says ..."),
       sessionId |-> Undefined, error |-> Undefined],
      [kind |-> "notOk", message |-> Undefined, sessionId |-> Undefined,
       error |-> SessionExpiredError],
      [kind |-> "rejected", message |-> Undefined, sessionId |-> Undefined,
       error |-> Str("Failed to fetch")] }

\* what uploadAndProcessFile (handleFileUpload) returns
UploadAndProcessFileResult(outcome) ==
    CASE outcome.kind = "ok" ->
            OrElse(outcome.message, Str("Document analysis complete."))
      [] outcome.kind = "notOk" ->
            Str("Error processing file: "
                  \o ToStr(OrElse(outcome.error, Str("Upload failed"))))
      [] OTHER -> Str("Error processing file: " \o ToStr(outcome.error))

\* what handleFollowUpQuestion (handleChatMessage) returns for a response
HandleFollowUpQuestionResult(outcome) ==
    CASE outcome.kind = "ok" -> outcome.message
      [] outcome.kind = "notOk" ->
            Str("Error getting answer: "
                  \o ToStr(OrElse(outcome.error, Str("Failed to get a response"))))
      [] OTHER -> Str("Error getting answer: " \o ToStr(outcome.error))

ContextLostMessage == Str("Document context lost. Please upload the document again.")

\* a request of the client that the server has not answered yet; n numbers the
\* sends, clearedSince records a handleClearChat since the request was sent
Request(kind, sessionId, question, n) ==
    [kind |-> kind, sessionId |-> sessionId, question |-> question, n |-> n,
     clearedSince |-> FALSE]

Remove(seq, i) == SubSeq(seq, 1, i - 1) \o SubSeq(seq, i + 1, Len(seq))

\* handleSendMessage past its guard, up to its await: the component afterwards
SendMessage(c, inputValue, hasFile, chatResult) ==
    LET n == c.sendCount + 1
        \* if (!currentChat) createNewChat(): the new chat is on screen, empty
        started == [c EXCEPT !.isProcessing = TRUE, !.sendCount = n,
                             !.currentChat = TRUE,
                             !.messages = IF c.currentChat THEN @ ELSE <<>>]
        userMessageContent == OrElse(Str(inputValue), Str("Uploaded: lease.pdf"))
        shown == [started EXCEPT
                     !.messages = AddMessage(@, userMessageContent, TRUE)]
    IN IF /\ c.variant = "translation" /\ ~c.currentChat
          /\ chatResult = "string" /\ GetChatByIdThrows
       THEN \* getChatById(chatResult) throws: the handler ends here
            started
       ELSE IF hasFile
       THEN [shown EXCEPT !.inflight =
                Append(@, Request("upload", Undefined, Str(inputValue), n))]
       ELSE IF c.variant = "session" /\ ~Truthy(c.currentDocSessionId)
       THEN \* handleFollowUpQuestion returns at once: the continuation runs
            \* before any other event
            [shown EXCEPT !.messages = AddMessage(@, ContextLostMessage, FALSE),
                          !.isProcessing = FALSE]
       ELSE [shown EXCEPT !.inflight =
                Append(@, Request("chat",
                                  IF c.variant = "session"
                                  THEN c.currentDocSessionId ELSE Undefined,
                                  Str(inputValue), n))]

\* a handleSendMessage that does not look at isProcessing
HandleSendMessageIgnoringIsProcessing(inputValue, hasFile, chatResult) ==
    /\ ~(Trim(inputValue) = "" /\ ~hasFile)
    /\ client.sendCount < MaxSends
    /\ client' = SendMessage(client, inputValue, hasFile, chatResult)
    /\ UNCHANGED <<sessionVars, translationVars>>

\* the user sends (button or Enter): a call that fails the guard returns at once
HandleSendMessage(inputValue, hasFile, chatResult) ==
    /\ ~((Trim(inputValue) = "" /\ ~hasFile) \/ client.isProcessing)
    /\ client.sendCount < MaxSends
    /\ client' = SendMessage(client, inputValue, hasFile, chatResult)
    /\ UNCHANGED <<sessionVars, translationVars>>

\* an uploadAndProcessFile that forgets the session when the upload fails
UploadRespondsForgettingOnFailure(i, outcome) ==
    /\ i \in 1..Len(client.inflight)
    /\ client.inflight[i].kind = "upload"
    /\ client' =
          [client EXCEPT
              !.currentDocSessionId =
                  IF /\ client.variant = "session" /\ outcome.kind = "ok"
                     /\ Truthy(outcome.sessionId)
                  THEN outcome.sessionId ELSE Null,
              !.messages = AddMessage(@, UploadAndProcessFileResult(outcome), FALSE),
              !.isProcessing = FALSE,
              !.inflight = Remove(@, i)]
    /\ UNCHANGED <<sessionVars, translationVars>>

\* the server answers upload request i (or the fetch fails): the rest of
\* uploadAndProcessFile and of handleSendMessage
UploadResponds(i, outcome) ==
    /\ i \in 1..Len(client.inflight)
    /\ client.inflight[i].kind = "upload"
    /\ client' =
          [client EXCEPT
              !.currentDocSessionId =
                  IF /\ client.variant = "session" /\ outcome.kind = "ok"
                     /\ Truthy(outcome.sessionId)
                  THEN outcome.sessionId ELSE @,
              !.messages = AddMessage(@, UploadAndProcessFileResult(outcome), FALSE),
              !.isProcessing = FALSE,
              !.inflight = Remove(@, i)]
    /\ UNCHANGED <<sessionVars, translationVars>>

\* the server answers follow-up request i (or the fetch fails)
FollowUpResponds(i, outcome) ==
    /\ i \in 1..Len(client.inflight)
    /\ client.inflight[i].kind = "chat"
    /\ client' =
          [client EXCEPT
              !.messages = AddMessage(@, HandleFollowUpQuestionResult(outcome), FALSE),
              !.isProcessing = FALSE,
              !.inflight = Remove(@, i)]
    /\ UNCHANGED <<sessionVars, translationVars>>

\* the Clear Chat button: clearAllChats(), setCurrentDocSessionId(null)
HandleClearChat ==
    /\ client.currentChat
    /\ client' =
          [client EXCEPT
              !.currentChat = FALSE,
              !.messages = <<>>,
              !.currentDocSessionId = IF client.variant = "session" THEN Null ELSE @,
              !.inflight = [j \in DOMAIN @ |-> [@[j] EXCEPT !.clearedSince = TRUE]]]
    /\ UNCHANGED <<sessionVars, translationVars>>

\* the Try Demo button of the start page: createNewChat()
HandleTryDemo ==
    /\ ~client.currentChat
    /\ client' = [client EXCEPT !.currentChat = TRUE, !.messages = <<>>]
    /\ UNCHANGED <<sessionVars, translationVars>>

ClientInit ==
    /\ documentContextStore = <<>>
    /\ timers = {}
    /\ uuidCount = 0
    /\ uploads = [u \in UploadIds |-> IdleUpload]
    /\ chat = IdleChat
    /\ translationUpload = IdleTranslationUpload
    /\ client \in {IdleClient("session"), IdleClient("translation")}

ClientNext ==
    \/ \E inputValue \in InputValues, hasFile \in BOOLEAN,
          chatResult \in CreateNewChatResults :
          HandleSendMessage(inputValue, hasFile, chatResult)
    \/ \E i \in 1..Len(client.inflight) :
          \E outcome \in UploadOutcomes(client.inflight[i].n) :
             UploadResponds(i, outcome)
    \/ \E i \in 1..Len(client.inflight) : \E outcome \in ChatOutcomes :
          FollowUpResponds(i, outcome)
    \/ HandleClearChat
    \/ HandleTryDemo

ClientSpec == ClientInit /\ [][ClientNext]_vars

(* C25: every handleSendMessage that sets isProcessing to true sets it back  *)
(* to false: isProcessing is true only while a request of the send is        *)
(* awaited, and the step that ends the send sets it to false, whether the    *)
(* request succeeded or failed and whether or not a chat existed when the    *)
(* send started.                                                             *)
C25_SendTerminates ==
    /\ [](client.isProcessing => Len(client.inflight) >= 1)
    /\ [][Len(client'.inflight) < Len(client.inflight)
            => ~client'.isProcessing]_vars

(* C26: in the client of the session variant, an upload that succeeds and    *)
(* returns a session id makes that id the current one; an upload that fails  *)
(* (or returns no id) leaves the current id as it is; nothing else than a    *)
(* successful upload or a clear changes it; and every follow-up request the  *)
(* client sends carries the current id.  So a follow-up carries the id of    *)
(* the most recent successful upload until the chat is cleared.              *)
C26_FollowUpCarriesLatestSession ==
    /\ [][\A i \in 1..Len(client.inflight) :
            \A outcome \in UploadOutcomes(client.inflight[i].n) :
               (client.variant = "session" /\ UploadResponds(i, outcome))
               => client'.currentDocSessionId =
                     IF outcome.kind = "ok" /\ Truthy(outcome.sessionId)
                     THEN outcome.sessionId
                     ELSE client.currentDocSessionId]_vars
    /\ [][client'.currentDocSessionId # client.currentDocSessionId
            => \/ client'.currentDocSessionId = Null /\ ~client'.currentChat
               \/ \E i \in 1..Len(client.inflight) :
                     /\ client.inflight[i].kind = "upload"
                     /\ client'.inflight = Remove(client.inflight, i)
                     /\ client'.currentDocSessionId
                           = Str(Uuid(client.inflight[i].n))]_vars
    /\ [][\A j \in 1..Len(client'.inflight) :
            ( /\ j > Len(client.inflight)
              /\ client.variant = "session"
              /\ client'.inflight[j].kind = "chat" )
            => /\ Truthy(client.currentDocSessionId)
               /\ client'.inflight[j].sessionId = client.currentDocSessionId]_vars

\* the first upload succeeded, the second failed, and the follow-up now in
\* flight carries the session id of the first
C26_Witness ==
    /\ client.variant = "session"
    /\ client.currentDocSessionId = Str(Uuid(1))
    /\ Len(client.messages) = 5
    /\ client.messages[4].content = Str("Error processing file: Failed to fetch")
    /\ Len(client.inflight) = 1
    /\ client.inflight[1].kind = "chat"
    /\ client.inflight[1].sessionId = Str(Uuid(1))

(* C27: after handleClearChat the current document session id is null, and   *)
(* it stays null until an upload that was started after the clear succeeds,  *)
(* also when an upload was in flight at the clear; a follow-up asked while   *)
(* it is null is answered in the chat with the "Document context lost"       *)
(* message and sends no request.                                             *)
C27_ClearForgetsSession ==
    /\ [][HandleClearChat => client'.currentDocSessionId = Null]_vars
    /\ [][(client.currentDocSessionId = Null /\ client'.currentDocSessionId # Null)
            => \E i \in 1..Len(client.inflight) :
                  /\ client.inflight[i].kind = "upload"
                  /\ ~client.inflight[i].clearedSince
                  /\ client'.inflight = Remove(client.inflight, i)]_vars
    /\ [][\A inputValue \in InputValues, chatResult \in CreateNewChatResults :
            ( /\ client.variant = "session"
              /\ client.currentDocSessionId = Null
              /\ HandleSendMessage(inputValue, FALSE, chatResult) )
            => /\ client'.inflight = client.inflight
               /\ client'.messages[Len(client'.messages)]
                     = Message(ContextLostMessage, FALSE)]_vars

(* C28: while a send is in progress a further handleSendMessage does         *)
(* nothing, so a client has at most one upload or follow-up request in       *)
(* flight, a request is in flight exactly while isProcessing is true (unless *)
(* the send ended without one), and in the chat a user message is followed   *)
(* by exactly one AI message: no two messages in a row come from the same    *)
(* side, and the last message is the user's only while its request is        *)
(* awaited.                                                                  *)
C28_SingleFlight ==
    /\ [](Len(client.inflight) <= 1)
    /\ [](Len(client.inflight) = 1 => client.isProcessing)
    /\ [][client.isProcessing
            => \A inputValue \in InputValues, hasFile \in BOOLEAN,
                  chatResult \in CreateNewChatResults :
                  ~HandleSendMessage(inputValue, hasFile, chatResult)]_vars
    /\ [](\A k \in 1..Len(client.messages) :
            /\ k < Len(client.messages)
                  => client.messages[k].isUser # client.messages[k + 1].isUser
            /\ (k = Len(client.messages) /\ client.messages[k].isUser)
                  => Len(client.inflight) = 1)

\* a second question is awaited after a first exchange, and nothing else
C28_Witness ==
    /\ client.isProcessing
    /\ Len(client.inflight) = 1
    /\ client.sendCount >= 2
    /\ Len(client.messages) = 3
    /\ client.messages[1].isUser /\ ~client.messages[2].isUser
    /\ client.messages[3].isUser

====
